---------------------------- MODULE Spec2Model ----------------------------
(***************************************************************************)
(* Remediation action lifecycle of QuantumState.                           *)
(*                                                                         *)
(* The document store is modelled as three collections (action queue,      *)
(* result records, incidents).  Every document write bumps the document's  *)
(* version token (_seq_no); a conditional update succeeds only when the    *)
(* token supplied equals the current one.  Reads see the latest writes.    *)
(*                                                                         *)
(* Time is a clock in minutes.  Variables whose comment says "history"     *)
(* record what happened (who wrote, who executed); the program does not    *)
(* read them.                                                              *)
(***************************************************************************)
EXTENDS Integers, Sequences, FiniteSets, Bags, TLC

(* ------------------------------ bounds --------------------------------- *)
\* number of concurrent runner processes (infra/mcp-runner/runner.py run())
NRunners == 2
\* number of concurrent requests to POST /mcp-runner/execute
NExecs == 1
\* number of calls of POST /workflow/trigger
MaxTriggers == 2
\* number of document-store calls that may raise over a run
MaxFaults == 1

\* number of concurrent requests to POST /pipeline/run
NPipes == 2
\* number of pipeline runs that get past the lock
MaxRuns == 2
\* number of on-demand verifications (POST /guardian/stream/{service})
MaxVerifs == 2
\* number of pipeline runs and on-demand verifications together
MaxRequests == 3
\* number of background scans (_do_scan calls of the verification loop)
MaxScans == 2
\* the clock stops here (minutes)
MaxTime == 20

Runners == 1 .. NRunners
Execs   == (NRunners + 1) .. (NRunners + NExecs)
Pipes   == 1 .. NPipes
\* the clock advances in steps of these many minutes
TickSteps == {5}
\* the largest MTTR formatted (seconds)
MaxSeconds == 300
\* number of action documents a burst of direct remediations may leave
MaxBurst == 11
MaxTimeSlow == 70
SlowSteps == {10}

(* --------------------------- program constants ------------------------- *)
KnownServices == {"payment-service", "checkout-service"}
KnownKinds == {"restart_service", "rollback_deployment"}
\* a kind outside the four the runner maps
UnknownKind == "drain_node"
\* what callers of POST /workflow/trigger ask for
QueuedServices == {"payment-service"}
QueuedKinds == {"restart_service", UnknownKind}

VARIABLES
  now,          \* wall clock, minutes
  actions,      \* remediation-actions index: sequence of documents, _id = position
  results,      \* remediation-results index: bag of documents (auto-generated _id)
  nextExec,     \* source of fresh exec_id values (uuid4()[:8])
  triggers,     \* number of POST /workflow/trigger calls made
  faults,       \* number of document-store calls that have raised
  rpc,          \* runner: position in the poll cycle
  rhit,         \* runner: the hit it polled (_id, _seq_no)
  rres,         \* runner: result of execute_action / fallback_remediate
  epc,          \* execute endpoint request: position
  ehit,         \* execute endpoint request: the _id it found
  mutlog,       \* history: per action document, who mutated it and to which status
  attempts,     \* history: per action document, the runners' claim attempts
  executedBy,   \* history: per action document, the consumers that ran the execute step
  dockerOps,    \* history: per action document, control-plane calls made
  recoveryWrites, \* history: per action document, recovery-metric batches written
  incidents,    \* incidents index: sequence of documents, _id = position
  lock,         \* _pipeline_lock: the request holding it, 0 when free
  runs,         \* number of pipeline runs that acquired the lock
  ppc,          \* pipeline request: position
  pstart,       \* pipeline request: pipeline_started_at
  pdet,         \* pipeline request: _detected_services
  psur,         \* pipeline request: the sections of surgeon_output
  pout,         \* history: the events the request's latest invocation emitted
  pwrites,      \* history: store writes made by the request's latest invocation
  pgate,        \* history: what the gate saw and decided, per detected service
  checked,      \* _checked_exec_ids
  verifs,       \* number of on-demand verifications made
  scans,        \* number of background scans started
  spc,          \* background scan: position ("idle", or "loop" over its hits)
  scand,        \* background scan: the hits not yet looked at (_id of each)
  scanlog,      \* history: what the scan did with each hit it looked at
  audits,       \* agent-decisions index: the audit records, in the order written
  stop,         \* _stop_event of the verification loop
  running,      \* _worker_state["running"]: the worker thread is in its loop
  lastcall,     \* history: the last of start_guardian / stop_guardian called
  fmt,          \* the last MTTR formatted: seconds, the agent's estimate, what is stored
  vres,         \* the last verify_resolution: the sampled averages and the verdict
  tpc,          \* /workflow/trigger with a workflow configured: position
  treq,         \* /workflow/trigger with a workflow configured: the request in hand
  wfruns        \* history: incident_id of the decisions whose Kibana workflow was run

queueVars == <<actions, results, nextExec, triggers, faults, rpc, rhit, rres,
               epc, ehit, mutlog, attempts, executedBy, dockerOps, recoveryWrites>>
pipeVars == <<incidents, lock, runs, ppc, pstart, pdet, psur, pout, pwrites, pgate>>
guardVars == <<checked, verifs, scans, spc, scand, scanlog, audits>>
loopVars == <<stop, running, lastcall>>
trigVars == <<tpc, treq, wfruns>>
vars == <<now, queueVars, pipeVars, guardVars, loopVars, fmt, vres, trigVars>>

(* ------------------------- the document store -------------------------- *)
NoHit == [id |-> 0, seq_no |-> 0]
NoRes == [ok |-> FALSE, output |-> "none"]
NoSamples == [memory_percent |-> 0, error_rate_x10 |-> 0, latency_ms |-> 0, verdict |-> ""]
NoFmt == [seconds |-> 0, display |-> <<>>, estimate |-> <<>>]
NoReq == [incident_id |-> 0, service |-> "", action |-> "", workflow_triggered |-> FALSE]

\* a new action document as written by es.index
ActionDoc(ts, incident_id, service, kind, status, exec_id, executed_at) ==
  [ts |-> ts, incident_id |-> incident_id, service |-> service, action |-> kind,
   status |-> status, exec_id |-> exec_id, executed_at |-> executed_at,
   seq_no |-> 0]

\* es.update(id, body={"doc": {"status": s, ...}}): partial update, new version token
EsUpdateStatus(id, s, executed_at) ==
  [actions EXCEPT ![id].status = s, ![id].executed_at = executed_at,
                  ![id].seq_no = @ + 1]

\* if_seq_no / if_primary_term accepted by the store
CasConflictNever(id, seq_no) == TRUE
CasMatches(id, seq_no) == actions[id].seq_no = seq_no

\* n document-store calls raise
StoreFault(n) ==
  /\ faults + n <= MaxFaults
  /\ faults' = faults + n

\* history bookkeeping when a document is appended to the queue
GrowHistory ==
  /\ mutlog' = Append(mutlog, <<>>)
  /\ attempts' = Append(attempts, {})
  /\ executedBy' = Append(executedBy, <<>>)
  /\ dockerOps' = Append(dockerOps, 0)
  /\ recoveryWrites' = Append(recoveryWrites, 0)

LogMutation(id, who, s) ==
  mutlog' = [mutlog EXCEPT ![id] = Append(@, [by |-> who, to |-> s])]

Init ==
  /\ now = 0
  /\ actions = <<>>
  /\ results = EmptyBag
  /\ nextExec = 1
  /\ triggers = 0
  /\ faults = 0
  /\ rpc = [r \in Runners |-> "idle"]
  /\ rhit = [r \in Runners |-> NoHit]
  /\ rres = [r \in Runners |-> NoRes]
  /\ epc = [e \in Execs |-> "idle"]
  /\ ehit = [e \in Execs |-> 0]
  /\ mutlog = <<>>
  /\ attempts = <<>>
  /\ executedBy = <<>>
  /\ dockerOps = <<>>
  /\ recoveryWrites = <<>>
  /\ incidents = <<>>
  /\ lock = 0
  /\ runs = 0
  /\ ppc = [p \in Pipes |-> "idle"]
  /\ pstart = [p \in Pipes |-> 0]
  /\ pdet = [p \in Pipes |-> {}]
  /\ psur = [p \in Pipes |-> <<>>]
  /\ pout = [p \in Pipes |-> <<>>]
  /\ pwrites = [p \in Pipes |-> 0]
  /\ pgate = [p \in Pipes |-> {}]
  /\ checked = {}
  /\ verifs = 0
  /\ scans = 0
  /\ spc = "idle"
  /\ scand = <<>>
  /\ scanlog = <<>>
  /\ audits = <<>>
  /\ stop = FALSE
  /\ running = TRUE
  /\ lastcall = "start"
  /\ fmt = NoFmt
  /\ vres = NoSamples
  /\ tpc = "idle"
  /\ treq = NoReq
  /\ wfruns = {}


(* ------------------ POST /remediate (synthetic recovery) --------------- *)
\* How one call of execute_remediation can end:
\*   ok            every write succeeds
\*   fail_metrics  _write_recovery_metrics raises; the except branch records "failed"
\*   fail_result   _write_remediation_result raises after the "executed" record is
\*                 written; the except branch records "failed" under the same exec_id
\*   fail_all      the first write and the except branch's write both raise (HTTP 500)
RemediateOutcomes == {"ok", "fail_metrics", "fail_result", "fail_all"}
\* the number of store calls that raise in each
RemediateFaults(outcome) ==
  CASE outcome = "ok" -> 0
    [] outcome = "fail_all" -> 2
    [] OTHER -> 1

\* the action records one call leaves in the queue
RemediateDocs(svc, kind, inc, outcome, x) ==
  LET okDoc   == ActionDoc(now, inc, svc, kind, "executed", x, now)
      failDoc == ActionDoc(now, inc, svc, kind, "failed", x, now)
  IN CASE outcome = "ok"           -> <<okDoc>>
       [] outcome = "fail_metrics" -> <<failDoc>>
       [] outcome = "fail_result"  -> <<okDoc, failDoc>>
       [] OTHER                    -> <<>>

\* the result record _write_remediation_result writes
SuccessResult(x) ==
  [exec_id |-> x, status |-> "absent", outcome |-> "success", docker_used |-> FALSE]

RemediateResults(outcome, x) ==
  IF outcome = "ok" THEN results (+) SetToBag({SuccessResult(x)}) ELSE results

\* execute_remediation called for `origin` (the runner's action, 0 for a direct call)
execute_remediation(origin, who, svc, kind, inc, outcome) ==
  LET x       == nextExec
      docs    == RemediateDocs(svc, kind, inc, outcome, x)
      n       == Len(docs)
      wrote   == IF outcome \in {"ok", "fail_result"} THEN 1 ELSE 0
      target  == IF origin # 0 THEN origin ELSE Len(actions) + 1
      grown   == recoveryWrites \o [i \in 1 .. n |-> 0]
  IN /\ StoreFault(RemediateFaults(outcome))
     /\ nextExec' = x + 1
     /\ actions' = actions \o docs
     /\ results' = RemediateResults(outcome, x)
     /\ mutlog' = mutlog \o [i \in 1 .. n |-> <<>>]
     /\ attempts' = attempts \o [i \in 1 .. n |-> {}]
     /\ executedBy' = IF origin # 0
                      THEN executedBy \o [i \in 1 .. n |-> <<>>]
                      ELSE executedBy \o [i \in 1 .. n |->
                                             IF i = 1 /\ wrote = 1 THEN <<who>> ELSE <<>>]
     /\ dockerOps' = dockerOps \o [i \in 1 .. n |-> 0]
     /\ recoveryWrites' = IF target \in 1 .. Len(grown)
                          THEN [grown EXCEPT ![target] = @ + wrote]
                          ELSE grown


\* POST /remediate called directly (the console, or the Kibana workflow): the
\* caller is consumer 0, the request names no queued action
post_remediate ==
  /\ Len(actions) < MaxBurst
  /\ \E svc \in QueuedServices, outcome \in RemediateOutcomes :
       execute_remediation(0, 0, svc, "restart_service", 0, outcome)
  /\ UNCHANGED <<pipeVars, guardVars, now, loopVars, fmt, vres, trigVars, triggers, rpc, rhit, rres,
                 epc, ehit>>

(* ------------------------ POST /workflow/trigger ----------------------- *)
\* the queue write of trigger_kibana_workflow: one pending document, fresh exec_id
QueuePending(inc, svc, kind) ==
  /\ actions' = Append(actions, ActionDoc(now, inc, svc, kind, "pending", nextExec, -1))
  /\ nextExec' = nextExec + 1
  /\ GrowHistory

trigger_kibana_workflow ==
  /\ triggers < MaxTriggers
  /\ triggers' = triggers + 1
  /\ \E svc \in QueuedServices, kind \in QueuedKinds : QueuePending(0, svc, kind)
  /\ UNCHANGED <<pipeVars, guardVars, now, loopVars, fmt, vres, trigVars, results, faults, rpc, rhit, rres, epc, ehit>>

(* ------- POST /workflow/trigger where REMEDIATION_WORKFLOW_ID is set ---- *)
\* the request to {kibana}/api/workflows/{id}/run, made before the queue write;
\* the decision is named by its incident_id
trigger_kibana_workflow_run ==
  /\ tpc = "idle"
  /\ triggers < MaxTriggers
  /\ triggers' = triggers + 1
  /\ \E svc \in QueuedServices, kind \in QueuedKinds, ok \in BOOLEAN :
       /\ treq' = [incident_id |-> triggers + 1, service |-> svc, action |-> kind,
                   workflow_triggered |-> ok]
       /\ wfruns' = IF ok THEN wfruns \cup {triggers + 1} ELSE wfruns
  /\ tpc' = "write"
  /\ UNCHANGED <<now, loopVars, fmt, vres, pipeVars, guardVars, actions, results, nextExec, faults, rpc, rhit,
                 rres, epc, ehit, mutlog, attempts, executedBy, dockerOps,
                 recoveryWrites>>

\* "Always write directly to ES as the coordination bus"
trigger_kibana_workflow_write ==
  /\ tpc = "write"
  /\ \/ /\ QueuePending(treq.incident_id, treq.service, treq.action)
        /\ UNCHANGED faults
     \/ \* es.index raises: the handler answers es_write failed
        /\ StoreFault(1)
        /\ UNCHANGED <<actions, nextExec, mutlog, attempts, executedBy, dockerOps,
                       recoveryWrites>>
  /\ tpc' = "idle"
  /\ treq' = NoReq
  /\ UNCHANGED <<now, loopVars, fmt, vres, pipeVars, guardVars, wfruns, results, triggers, rpc, rhit, rres,
                 epc, ehit>>

trigger_kibana_workflow_configured ==
  \/ trigger_kibana_workflow_run
  \/ trigger_kibana_workflow_write

(* ------------------------------ the runner ----------------------------- *)
\* poll(): the oldest document with status pending
NewestPending ==
  {i \in DOMAIN actions :
     /\ actions[i].status = "pending"
     /\ \A j \in DOMAIN actions :
          actions[j].status = "pending" => actions[i].ts >= actions[j].ts}
OldestPending ==
  {i \in DOMAIN actions :
     /\ actions[i].status = "pending"
     /\ \A j \in DOMAIN actions :
          actions[j].status = "pending" => actions[i].ts <= actions[j].ts}

poll(r) ==
  /\ rpc[r] = "idle"
  /\ \E i \in OldestPending :
       rhit' = [rhit EXCEPT ![r] = [id |-> i, seq_no |-> actions[i].seq_no]]
  /\ rpc' = [rpc EXCEPT ![r] = "polled"]
  /\ UNCHANGED <<pipeVars, guardVars, now, loopVars, fmt, vres, trigVars, actions, results, nextExec, triggers, faults, rres, epc,
                 ehit, mutlog, attempts, executedBy, dockerOps, recoveryWrites>>

\* the end of a cycle: back to the sleep in run()
RunnerCrashed(r) ==
  /\ rpc' = [rpc EXCEPT ![r] = "crashed"]
  /\ rhit' = [rhit EXCEPT ![r] = NoHit]
  /\ rres' = [rres EXCEPT ![r] = NoRes]
RunnerIdle(r) ==
  /\ rpc' = [rpc EXCEPT ![r] = "idle"]
  /\ rhit' = [rhit EXCEPT ![r] = NoHit]
  /\ rres' = [rres EXCEPT ![r] = NoRes]

\* except ConflictError: "already claimed by another runner — skipping", return
ConflictProceeds(r) ==
  /\ rpc' = [rpc EXCEPT ![r] = "claimed"]
  /\ UNCHANGED <<rhit, rres>>
ConflictReturn(r) == RunnerIdle(r)

\* lock_and_process, the conditional update to status=executing
lock_and_process_claim(r) ==
  LET id == rhit[r].id IN
  /\ rpc[r] = "polled"
  /\ IF CasMatches(id, rhit[r].seq_no)
     THEN /\ actions' = EsUpdateStatus(id, "executing", actions[id].executed_at)
          /\ LogMutation(id, r, "executing")
          /\ attempts' = [attempts EXCEPT ![id] = @ \cup {[by |-> r, won |-> TRUE]}]
          /\ rpc' = [rpc EXCEPT ![r] = "claimed"]
          /\ UNCHANGED <<rhit, rres>>
     ELSE \* ConflictError: skip the item
          /\ attempts' = [attempts EXCEPT ![id] = @ \cup {[by |-> r, won |-> FALSE]}]
          /\ ConflictReturn(r)
          /\ UNCHANGED <<actions, mutlog>>
  /\ UNCHANGED <<pipeVars, guardVars, now, loopVars, fmt, vres, trigVars, results, nextExec, triggers, faults, epc, ehit,
                 executedBy, dockerOps, recoveryWrites>>

\* execute_action: the number of control-plane calls a kind makes
DockerCalls(kind) ==
  CASE kind = "rollback_deployment" -> 2
    [] kind \in KnownKinds -> 1
    [] OTHER -> 0

lock_and_process_execute(r) ==
  LET id == rhit[r].id
      kind == actions[id].action IN
  /\ rpc[r] = "claimed"
  /\ executedBy' = [executedBy EXCEPT ![id] = Append(@, r)]
  /\ dockerOps' = [dockerOps EXCEPT ![id] = @ + DockerCalls(kind)]
  /\ \E ok \in BOOLEAN :
       /\ kind \notin KnownKinds => ~ok
       /\ IF ok
          THEN /\ rres' = [rres EXCEPT ![r] = [ok |-> TRUE, output |-> "docker"]]
               /\ rpc' = [rpc EXCEPT ![r] = "finalize"]
          ELSE /\ rres' = [rres EXCEPT ![r] = [ok |-> FALSE, output |-> "docker error"]]
               /\ rpc' = [rpc EXCEPT ![r] = "fallback"]
  /\ UNCHANGED <<pipeVars, guardVars, now, loopVars, fmt, vres, trigVars, actions, results, nextExec, triggers, faults, rhit, epc,
                 ehit, mutlog, attempts, recoveryWrites>>

\* fallback_remediate: POST /remediate with the action document; ok is resp.ok
lock_and_process_fallback(r) ==
  LET id == rhit[r].id
      doc == actions[id] IN
  /\ rpc[r] = "fallback"
  /\ \/ \E outcome \in RemediateOutcomes :
          /\ execute_remediation(id, r, doc.service, doc.action, doc.incident_id, outcome)
          /\ rres' = [rres EXCEPT ![r] = [ok |-> outcome # "fail_all",
                                          output |-> "synthetic_fallback"]]
     \/ \* the request itself raises (backend unreachable, timeout)
        /\ rres' = [rres EXCEPT ![r] = [ok |-> FALSE, output |-> "fallback failed"]]
        /\ UNCHANGED <<actions, results, nextExec, faults, mutlog, attempts,
                       executedBy, dockerOps, recoveryWrites>>
  /\ rpc' = [rpc EXCEPT ![r] = "finalize"]
  /\ UNCHANGED <<pipeVars, guardVars, now, loopVars, fmt, vres, trigVars, triggers, rhit, epc, ehit>>

FinalStatus(res) == IF res.ok THEN "executed" ELSE "failed"

\* lock_and_process, the unconditional update to the final status
lock_and_process_finalize(r) ==
  LET id == rhit[r].id IN
  /\ rpc[r] = "finalize"
  /\ \/ /\ actions' = EsUpdateStatus(id, FinalStatus(rres[r]), now)
        /\ LogMutation(id, r, FinalStatus(rres[r]))
        /\ rpc' = [rpc EXCEPT ![r] = "result"]
        /\ UNCHANGED <<rhit, rres, faults>>
     \/ \* the update raises: run() logs it and sleeps
        /\ StoreFault(1)
        /\ RunnerIdle(r)
        /\ UNCHANGED <<actions, mutlog>>
  /\ UNCHANGED <<pipeVars, guardVars, now, loopVars, fmt, vres, trigVars, results, nextExec, triggers, epc, ehit, attempts,
                 executedBy, dockerOps, recoveryWrites>>

\* the result record the runner writes
RunnerResult(id, res) ==
  [exec_id |-> actions[id].exec_id, status |-> FinalStatus(res), outcome |-> "absent",
   docker_used |-> res.output # "synthetic_fallback"]

lock_and_process_result(r) ==
  /\ rpc[r] = "result"
  /\ \/ /\ results' = results (+) SetToBag({RunnerResult(rhit[r].id, rres[r])})
        /\ UNCHANGED faults
     \/ \* es.index raises: run() logs it and sleeps
        /\ StoreFault(1)
        /\ UNCHANGED results
  /\ RunnerIdle(r)
  /\ UNCHANGED <<pipeVars, guardVars, now, loopVars, fmt, vres, trigVars, actions, nextExec, triggers, epc, ehit, mutlog,
                 attempts, executedBy, dockerOps, recoveryWrites>>

runner(r) ==
  \/ poll(r)
  \/ lock_and_process_claim(r)
  \/ lock_and_process_execute(r)
  \/ lock_and_process_fallback(r)
  \/ lock_and_process_finalize(r)
  \/ lock_and_process_result(r)

(* ----------------- POST /mcp-runner/execute (on demand) ---------------- *)
ExecIdle(e) ==
  /\ epc' = [epc EXCEPT ![e] = "idle"]
  /\ ehit' = [ehit EXCEPT ![e] = 0]

\* the search for the oldest pending action (no version token is requested)
mcp_runner_execute_find(e) ==
  /\ epc[e] = "idle"
  /\ \E i \in OldestPending : ehit' = [ehit EXCEPT ![e] = i]
  /\ epc' = [epc EXCEPT ![e] = "found"]
  /\ UNCHANGED <<pipeVars, guardVars, now, loopVars, fmt, vres, trigVars, actions, results, nextExec, triggers, faults, rpc, rhit,
                 rres, mutlog, attempts, executedBy, dockerOps, recoveryWrites>>

\* "Mark as executing": an unconditional update; an exception is swallowed
mcp_runner_execute_mark(e) ==
  LET id == ehit[e] IN
  /\ epc[e] = "found"
  /\ \/ /\ actions' = EsUpdateStatus(id, "executing", actions[id].executed_at)
        /\ LogMutation(id, e, "executing")
        /\ UNCHANGED faults
     \/ /\ StoreFault(1)
        /\ UNCHANGED <<actions, mutlog>>
  /\ epc' = [epc EXCEPT ![e] = "marked"]
  /\ UNCHANGED <<pipeVars, guardVars, now, loopVars, fmt, vres, trigVars, results, nextExec, triggers, rpc, rhit, rres,
                 ehit, attempts, executedBy, dockerOps, recoveryWrites>>

\* _write_recovery_metrics: the synthetic restart; an exception ends the request
mcp_runner_execute_recover(e) ==
  LET id == ehit[e] IN
  /\ epc[e] = "marked"
  /\ \/ /\ recoveryWrites' = [recoveryWrites EXCEPT ![id] = @ + 1]
        /\ executedBy' = [executedBy EXCEPT ![id] = Append(@, e)]
        /\ epc' = [epc EXCEPT ![e] = "recovered"]
        /\ UNCHANGED <<ehit, faults>>
     \/ /\ StoreFault(1)
        /\ ExecIdle(e)
        /\ UNCHANGED <<recoveryWrites, executedBy>>
  /\ UNCHANGED <<pipeVars, guardVars, now, loopVars, fmt, vres, trigVars, actions, results, nextExec, triggers, rpc, rhit,
                 rres, mutlog, attempts, dockerOps>>

\* "Mark executed": an unconditional update; an exception is swallowed
mcp_runner_execute_done(e) ==
  LET id == ehit[e] IN
  /\ epc[e] = "recovered"
  /\ \/ /\ actions' = EsUpdateStatus(id, "executed", now)
        /\ LogMutation(id, e, "executed")
        /\ UNCHANGED faults
     \/ /\ StoreFault(1)
        /\ UNCHANGED <<actions, mutlog>>
  /\ epc' = [epc EXCEPT ![e] = "result"]
  /\ UNCHANGED <<pipeVars, guardVars, now, loopVars, fmt, vres, trigVars, results, nextExec, triggers, rpc, rhit, rres,
                 ehit, attempts, executedBy, dockerOps, recoveryWrites>>

\* _write_remediation_result(inc_id, service, action, exec_id, "success")
mcp_runner_execute_result(e) ==
  /\ epc[e] = "result"
  /\ \/ /\ results' = results (+) SetToBag({SuccessResult(actions[ehit[e]].exec_id)})
        /\ UNCHANGED faults
     \/ /\ StoreFault(1)
        /\ UNCHANGED results
  /\ ExecIdle(e)
  /\ UNCHANGED <<pipeVars, guardVars, now, loopVars, fmt, vres, trigVars, actions, nextExec, triggers, rpc, rhit, rres,
                 mutlog, attempts, executedBy, dockerOps, recoveryWrites>>

mcp_runner_execute(e) ==
  \/ mcp_runner_execute_find(e)
  \/ mcp_runner_execute_mark(e)
  \/ mcp_runner_execute_recover(e)
  \/ mcp_runner_execute_done(e)
  \/ mcp_runner_execute_result(e)

(* ------------------------------- the clock ----------------------------- *)
\* Requests are short against the clock's step: the clock advances between requests.
Tick ==
  /\ lock = 0
  /\ spc = "idle"
  /\ \E d \in TickSteps : now + d <= MaxTime /\ now' = now + d
  /\ UNCHANGED <<loopVars, fmt, vres, trigVars, queueVars, pipeVars, guardVars>>

\* the same clock over a longer horizon, with a long idle period
TickSlow ==
  /\ lock = 0
  /\ spc = "idle"
  /\ \E d \in SlowSteps : now + d <= MaxTimeSlow /\ now' = now + d
  /\ UNCHANGED <<loopVars, fmt, vres, trigVars, queueVars, pipeVars, guardVars>>

(* ------------------------------ incidents ------------------------------ *)
\* str.upper() on the status values that occur
Upper(s) ==
  CASE s = "remediating" -> "REMEDIATING"
    [] s = "resolved" -> "RESOLVED"
    [] OTHER -> s

\* an incident document as the pipeline writes it (run: history, the run that wrote it)
IncidentDoc(ts, svc, status, run) ==
  [ts |-> ts, service |-> svc, resolution_status |-> status,
   guardian_verified |-> FALSE, mttr_seconds |-> -1, run |-> run]

\* the filter of the incident searches: service, pipeline_run, @timestamp >= now-<w>m
InWindow(svc, w) ==
  {i \in DOMAIN incidents : incidents[i].service = svc /\ incidents[i].ts >= now - w}

\* sort @timestamp desc, size 1.  Runs are serialized, so a later document of a
\* service never has an earlier timestamp; equal clock readings are ordered by creation.
Latest(S) ==
  CHOOSE i \in S : \A j \in S : incidents[j].ts < incidents[i].ts
                                 \/ (incidents[j].ts = incidents[i].ts /\ j <= i)

(* ----------------------- POST /pipeline/run: the gate ------------------ *)
GateWindowMin == 15
InFlightMaxAge == 15
CooldownMin == 15

\* the if / elif / else on the most recent incident of the service
GateDecisionNoCooldown(resolution, age) ==
  resolution = "REMEDIATING" /\ age < InFlightMaxAge
GateDecision(resolution, age) ==
  \/ resolution = "REMEDIATING" /\ age < InFlightMaxAge
  \/ resolution = "RESOLVED" /\ age < CooldownMin

\* TRUE when the service goes to _handled_services, FALSE when to _new_services
GateBlocks(svc) ==
  LET S == InWindow(svc, GateWindowMin) IN
  /\ S # {}
  /\ LET d == incidents[Latest(S)] IN
     GateDecision(Upper(d.resolution_status), now - d.ts)

\* history: the most recent incident of the service at the time of the gate
GateView(svc) ==
  LET All == {i \in DOMAIN incidents : incidents[i].service = svc} IN
  IF All = {}
  THEN [service |-> svc, seen |-> FALSE, status |-> "", age |-> -1,
        blocked |-> GateBlocks(svc)]
  ELSE [service |-> svc, seen |-> TRUE,
        status |-> incidents[Latest(All)].resolution_status,
        age |-> now - incidents[Latest(All)].ts,
        blocked |-> GateBlocks(svc)]

(* ------------------------ POST /pipeline/run --------------------------- *)
\* what the detection agent reports: the known services named in its text
DetectedSets == {{"payment-service"}, {"payment-service", "checkout-service"}}
\* the first block's resolution_status and whether its confidence reaches
\* _CONFIDENCE_THRESHOLD
SurgeonFirst ==
  {[status |-> "REMEDIATING", confident |-> TRUE],
   [status |-> "remediating", confident |-> TRUE],
   [status |-> "MONITORING", confident |-> TRUE],
   [status |-> "MONITORING", confident |-> FALSE]}

\* a service the detection may report that is not in _KNOWN_SERVICES
UnlistedService == "search-service"

\* surgeon_output as its sections (one "- service:" block each): one block per
\* detected service (one for the unlisted service when no known service is named),
\* the first block's fields being those _parse_field_value finds
SurgeonOutputs(D) ==
  LET S == IF D = {} THEN {UnlistedService} ELSE D
      n == Cardinality(S)
      orders == {f \in [1 .. n -> S] : \A i, j \in 1 .. n : f[i] = f[j] => i = j}
  IN {[i \in 1 .. n |->
         [service |-> f[i],
          resolution_status |-> IF i = 1 THEN first.status ELSE "MONITORING",
          confident |-> IF i = 1 THEN first.confident ELSE FALSE]] :
      f \in orders, first \in SurgeonFirst}

Emit(p, ev) == pout' = [pout EXCEPT ![p] = Append(@, ev)]

\* the finally of _pipeline_generator, and the end of the request
PipelineReturn(p) ==
  /\ lock' = 0
  /\ ppc' = [ppc EXCEPT ![p] = "idle"]
  /\ pdet' = [pdet EXCEPT ![p] = {}]
  /\ psur' = [psur EXCEPT ![p] = <<>>]

AcquireAlways(p) == TRUE
Acquire(p) == lock = 0

\* _pipeline_generator up to the first agent call
pipeline_generator(p) ==
  /\ ppc[p] = "idle"
  /\ runs < MaxRuns
  /\ runs + verifs < MaxRequests
  /\ IF Acquire(p)
     THEN /\ lock' = p
          /\ runs' = runs + 1
          /\ ppc' = [ppc EXCEPT ![p] = "cassandra"]
          /\ pstart' = [pstart EXCEPT ![p] = now]
          /\ pout' = [pout EXCEPT ![p] = <<>>]
          /\ pwrites' = [pwrites EXCEPT ![p] = 0]
          /\ pgate' = [pgate EXCEPT ![p] = {}]
     ELSE /\ pout' = [pout EXCEPT ![p] = <<"already_running">>]
          /\ pwrites' = [pwrites EXCEPT ![p] = 0]
          /\ pgate' = [pgate EXCEPT ![p] = {}]
          /\ UNCHANGED <<lock, runs, ppc, pstart>>
  /\ UNCHANGED <<now, loopVars, fmt, vres, trigVars, queueVars, guardVars, incidents, pdet, psur>>

\* the detection agent answers
pipeline_body_cassandra(p) ==
  /\ ppc[p] = "cassandra"
  /\ \/ /\ Emit(p, "no_output")
        /\ PipelineReturn(p)
     \/ /\ Emit(p, "healthy")
        /\ PipelineReturn(p)
     \/ \E D \in DetectedSets :
          /\ pdet' = [pdet EXCEPT ![p] = D]
          /\ ppc' = [ppc EXCEPT ![p] = "gate"]
          /\ UNCHANGED <<lock, psur, pout>>
  /\ UNCHANGED <<now, loopVars, fmt, vres, trigVars, queueVars, guardVars, incidents, runs, pstart, pwrites, pgate>>

\* the detection agent reports an anomaly and names no service of _KNOWN_SERVICES
pipeline_body_cassandra_unlisted(p) ==
  /\ ppc[p] = "cassandra"
  /\ pdet' = [pdet EXCEPT ![p] = {}]
  /\ ppc' = [ppc EXCEPT ![p] = "gate"]
  /\ UNCHANGED <<lock, psur, pout>>
  /\ UNCHANGED <<now, loopVars, fmt, vres, trigVars, queueVars, guardVars, incidents, runs, pstart, pwrites, pgate>>

\* "if not _new_services": pipeline_complete "Skipped — ...", return
GateSkipIgnored(p) ==
  /\ ppc' = [ppc EXCEPT ![p] = "agents"]
  /\ UNCHANGED <<lock, pdet, psur, pout>>
GateSkip(p) ==
  /\ Emit(p, "skipped")
  /\ PipelineReturn(p)

\* "except Exception: pass  # if check fails, continue with pipeline"
GateFailClosed(p) ==
  /\ Emit(p, "skipped")
  /\ PipelineReturn(p)
GateFailOpen(p) ==
  /\ ppc' = [ppc EXCEPT ![p] = "agents"]
  /\ UNCHANGED <<lock, pdet, psur, pout>>

\* the dedup / cooldown check, made "if _detected_services"
pipeline_body_gate(p) ==
  LET handled == {svc \in pdet[p] : GateBlocks(svc)}
      new == pdet[p] \ handled IN
  /\ ppc[p] = "gate"
  /\ IF pdet[p] = {}
     THEN /\ ppc' = [ppc EXCEPT ![p] = "agents"]
          /\ UNCHANGED <<lock, pdet, psur, pout, pgate, faults>>
     ELSE \/ /\ pgate' = [pgate EXCEPT ![p] = {GateView(svc) : svc \in pdet[p]}]
             /\ IF new = {}
                THEN GateSkip(p)
                ELSE /\ ppc' = [ppc EXCEPT ![p] = "agents"]
                     /\ UNCHANGED <<lock, pdet, psur, pout>>
             /\ UNCHANGED faults
          \/ \* a lookup raises
             /\ StoreFault(1)
             /\ GateFailOpen(p)
             /\ UNCHANGED pgate
  /\ UNCHANGED <<now, loopVars, fmt, vres, trigVars, guardVars, incidents, runs, pstart, pwrites,
                 actions, results, nextExec, triggers, rpc, rhit, rres, epc, ehit,
                 mutlog, attempts, executedBy, dockerOps, recoveryWrites>>

\* the investigation and remediation agents answer
pipeline_body_surgeon(p) ==
  /\ ppc[p] = "agents"
  /\ \E out \in SurgeonOutputs(pdet[p]) : psur' = [psur EXCEPT ![p] = out]
  /\ ppc' = [ppc EXCEPT ![p] = "remediate"]
  /\ UNCHANGED <<now, loopVars, fmt, vres, trigVars, queueVars, guardVars, incidents, lock, runs, pstart, pdet,
                 pout, pwrites, pgate>>

\* whether _maybe_trigger_remediation posts to /workflow/trigger
\* (confident: confidence >= _CONFIDENCE_THRESHOLD)
TriggersRemediation(first) ==
  \/ Upper(first.resolution_status) = "REMEDIATING" /\ first.service # ""
  \/ first.service # "" /\ first.confident

\* _maybe_trigger_remediation
maybe_trigger_remediation(p) ==
  LET first == psur[p][1] IN
  /\ ppc[p] = "remediate"
  /\ IF TriggersRemediation(first)
     THEN \/ /\ QueuePending(runs, first.service, "restart_service")
             /\ pwrites' = [pwrites EXCEPT ![p] = @ + 1]
             /\ Emit(p, "remediation_executing")
             /\ UNCHANGED faults
          \/ \* the queue write raises inside /workflow/trigger (es_write: failed)
             /\ StoreFault(1)
             /\ Emit(p, "remediation_executing")
             /\ UNCHANGED <<actions, nextExec, mutlog, attempts, executedBy, dockerOps,
                            recoveryWrites, pwrites>>
     ELSE /\ Emit(p, "remediation_skipped")
          /\ UNCHANGED <<actions, nextExec, mutlog, attempts, executedBy, dockerOps,
                         recoveryWrites, pwrites, faults>>
  /\ ppc' = [ppc EXCEPT ![p] = "write"]
  /\ UNCHANGED <<now, loopVars, fmt, vres, trigVars, guardVars, incidents, lock, runs, pstart, pdet, psur, pgate,
                 results, triggers, rpc, rhit, rres, epc, ehit>>

\* the incident documents of the first k sections
SectionDocs(p, k) ==
  [i \in 1 .. k |-> IncidentDoc(pstart[p], psur[p][i].service,
                                psur[p][i].resolution_status, runs)]

\* "write one incident doc per service found", then the lock is released
pipeline_body_write(p) ==
  LET n == Len(psur[p]) IN
  /\ ppc[p] = "write"
  /\ \/ /\ incidents' = incidents \o SectionDocs(p, n)
        /\ pwrites' = [pwrites EXCEPT ![p] = @ + n]
        /\ Emit(p, "complete")
        /\ UNCHANGED faults
     \/ \* es.index raises at section k+1
        \E k \in 0 .. n - 1 :
          /\ StoreFault(1)
          /\ incidents' = incidents \o SectionDocs(p, k)
          /\ pwrites' = [pwrites EXCEPT ![p] = @ + k]
          /\ Emit(p, "write_failed")
  /\ PipelineReturn(p)
  /\ UNCHANGED <<now, loopVars, fmt, vres, trigVars, guardVars, runs, pstart, pgate,
                 actions, results, nextExec, triggers, rpc, rhit, rres, epc, ehit,
                 mutlog, attempts, executedBy, dockerOps, recoveryWrites>>

\* an exit of _pipeline_body that is not a return: the try / finally of
\* _pipeline_generator releases the lock.  "aborted" in pout is history (the
\* stream carries no event for it).
AbortNoFinally(p) ==
  /\ Emit(p, "aborted")
  /\ ppc' = [ppc EXCEPT ![p] = "idle"]
  /\ pdet' = [pdet EXCEPT ![p] = {}]
  /\ psur' = [psur EXCEPT ![p] = <<>>]
  /\ UNCHANGED lock
Abort(p) ==
  /\ Emit(p, "aborted")
  /\ PipelineReturn(p)

\* an agent call outside any try raises: detection, investigation, remediation agent
pipeline_body_raises(p) ==
  /\ ppc[p] \in {"cassandra", "agents"}
  /\ Abort(p)
  /\ UNCHANGED <<now, loopVars, fmt, vres, trigVars, queueVars, guardVars, incidents, runs, pstart,
                 pwrites, pgate>>

\* the consumer closes the stream: GeneratorExit at the yield the body is suspended at
stream_closed(p) ==
  /\ ppc[p] # "idle"
  /\ Abort(p)
  /\ UNCHANGED <<now, loopVars, fmt, vres, trigVars, queueVars, guardVars, incidents, runs, pstart,
                 pwrites, pgate>>

run_pipeline(p) ==
  \/ pipeline_generator(p)
  \/ pipeline_body_cassandra(p)
  \/ pipeline_body_gate(p)
  \/ pipeline_body_surgeon(p)
  \/ maybe_trigger_remediation(p)
  \/ pipeline_body_write(p)

(* ------------------------------ verification --------------------------- *)
IncidentLookbackMin == 60
ActionLookbackMin == 30

\* texts of the verification agent, as sequences of characters
TextResolved == <<"R", "e", "s", "o", "l", "v", "e", "d">>
TextUnresolved == <<"u", "n", "r", "e", "s", "o", "l", "v", "e", "d">>
TextNotResolved == <<"n", "o", "t", " ", "r", "e", "s", "o", "l", "v", "e", "d">>
TextDegraded == <<"d", "e", "g", "r", "a", "d", "e", "d">>
Keyword == <<"r", "e", "s", "o", "l", "v", "e", "d">>

\* the final text of the verification agent: its "- verdict:" field ("" when the
\* line is missing), the rest of the text, and whether the text affirms that the
\* service is resolved
GuardianOutputs ==
  {[verdict |-> "RESOLVED", text |-> TextResolved, affirmed |-> TRUE],
   [verdict |-> "resolved", text |-> TextResolved, affirmed |-> TRUE],
   [verdict |-> "ESCALATE", text |-> TextDegraded, affirmed |-> FALSE],
   [verdict |-> "", text |-> TextResolved, affirmed |-> TRUE],
   [verdict |-> "", text |-> TextUnresolved, affirmed |-> FALSE],
   [verdict |-> "", text |-> TextNotResolved, affirmed |-> FALSE],
   [verdict |-> "", text |-> TextDegraded, affirmed |-> FALSE]}

\* str.lower() on the characters that occur
Lower(t) == [k \in DOMAIN t |-> IF t[k] = "R" THEN "r" ELSE t[k]]

\* pat in t
Contains(t, pat) ==
  \E k \in 1 .. Len(t) - Len(pat) + 1 : SubSeq(t, k, k + Len(pat) - 1) = pat

\* verdict in ("RESOLVED", "ESCALATE")
WellFormed(out) == Upper(out.verdict) \in {"RESOLVED", "ESCALATE"}

\* the verdict parse with its keyword fallback
ParseVerdict(out) ==
  IF WellFormed(out) THEN Upper(out.verdict)
  ELSE IF Contains(Lower(out.text), Keyword) THEN "RESOLVED" ELSE "ESCALATE"

\* _find_incident: the most recent incident of the service in the last 60 minutes
find_incident_any_age(svc) ==
  LET S == InWindow(svc, now)
  IN IF S = {} THEN 0 ELSE Latest(S)
find_incident(svc) ==
  LET S == InWindow(svc, IncidentLookbackMin)
  IN IF S = {} THEN 0 ELSE Latest(S)

\* _update_incident: the patch
update_incident_reopens(i, verdict, mttr_seconds) ==
  [incidents EXCEPT
     ![i].resolution_status = IF verdict = "RESOLVED" THEN "RESOLVED" ELSE "REMEDIATING",
     ![i].guardian_verified = TRUE,
     ![i].mttr_seconds = mttr_seconds]
update_incident(i, verdict, mttr_seconds) ==
  [incidents EXCEPT
     ![i].resolution_status = IF verdict = "RESOLVED" THEN "RESOLVED" ELSE "ESCALATE",
     ![i].guardian_verified = TRUE,
     ![i].mttr_seconds = mttr_seconds]

\* "Find the most recent action for context": any status, last 30 minutes
LatestAction(svc) ==
  LET S == {i \in DOMAIN actions :
              actions[i].service = svc /\ actions[i].ts >= now - ActionLookbackMin}
  IN IF S = {} THEN 0
     ELSE CHOOSE i \in S : \A j \in S : actions[j].ts < actions[i].ts
                                         \/ (actions[j].ts = actions[i].ts /\ j <= i)

\* stream_guardian: find the latest action, ask the agent, parse, patch the
\* incident, mark the exec_id checked
stream_guardian ==
  /\ verifs < MaxVerifs
  /\ runs + verifs < MaxRequests
  /\ verifs' = verifs + 1
  /\ \E svc \in KnownServices :
       LET a == LatestAction(svc)
           exec_id == IF a = 0 THEN 0 ELSE actions[a].exec_id IN
       \/ \* the agent call raises
          UNCHANGED <<incidents, checked, faults>>
       \/ \E out \in GuardianOutputs :
            LET verdict == ParseVerdict(out)
                hit == find_incident(svc) IN
            \/ /\ incidents' = IF hit = 0 THEN incidents
                               ELSE update_incident(hit, verdict,
                                                    (now - incidents[hit].ts) * 60)
               /\ checked' = IF exec_id # 0 THEN checked \cup {exec_id} ELSE checked
               /\ UNCHANGED faults
            \/ \* the lookup or the patch raises: "Incident update failed"
               /\ StoreFault(1)
               /\ UNCHANGED <<incidents, checked>>
  /\ UNCHANGED <<now, loopVars, fmt, vres, trigVars, lock, runs, ppc, pstart, pdet, psur, pout, pwrites, pgate,
                 actions, results, nextExec, triggers, rpc, rhit, rres, epc, ehit,
                 mutlog, attempts, executedBy, dockerOps, recoveryWrites,
                 scans, spc, scand, scanlog, audits>>

(* ----------------------- the verify_resolution tool -------------------- *)
\* the thresholds of the tool's CASE; error rates are in tenths of an error per
\* minute, so 25 stands for 2.5
MemoryHealthyBelow == 65
ErrorRateHealthyBelow == 25
LatencyHealthyBelow == 400

\* current_value per metric_type: the averages the tool computes from the samples
MemorySamples == {58, 64, 65, 72}
ErrorRateSamples == {8, 19, 20, 24, 25}
LatencySamples == {210, 249, 250, 300, 399, 400, 450}

\* EVAL healthy = CASE(...): one row per metric_type, TRUE for "YES"
Healthy(memory, error_x10, latency) ==
  [memory_percent |-> memory < MemoryHealthyBelow,
   error_rate |-> error_x10 < ErrorRateHealthyBelow,
   latency_ms |-> latency < LatencyHealthyBelow]

\* the verdict the agent is instructed to derive from the tool's rows:
\* RESOLVED when all pass, ESCALATE when any is breached
VerdictOf(rows) ==
  IF \A m \in DOMAIN rows : rows[m] THEN "RESOLVED" ELSE "ESCALATE"

\* one verification of a service's current readings
verify_resolution ==
  /\ \E memory \in MemorySamples, error_x10 \in ErrorRateSamples, latency \in LatencySamples :
       vres' = [memory_percent |-> memory, error_rate_x10 |-> error_x10,
                latency_ms |-> latency,
                verdict |-> VerdictOf(Healthy(memory, error_x10, latency))]
  /\ UNCHANGED <<now, loopVars, fmt, queueVars, pipeVars, guardVars, trigVars>>

(* ------------------------------ MTTR display --------------------------- *)
\* str(n) for n >= 0, as its characters
DigitChar == <<"0", "1", "2", "3", "4", "5", "6", "7", "8", "9">>
RECURSIVE Dec(_)
Dec(n) == IF n < 10 THEN <<DigitChar[n + 1]>>
          ELSE Dec(n \div 10) \o <<DigitChar[(n % 10) + 1]>>

\* _fmt_mttr
fmt_mttr(seconds) ==
  IF seconds < 60 THEN <<"~">> \o Dec(seconds) \o <<"s">>
  ELSE LET mins == seconds \div 60
           secs == seconds % 60
       IN IF secs # 0 THEN <<"~">> \o Dec(mins) \o <<"m", " ">> \o Dec(secs) \o <<"s">>
          ELSE <<"~">> \o Dec(mins) \o <<"m">>

\* the mttr_estimate field of the agent's output as _parse_field returns it: absent
\* (empty), or the agent's own wording
AgentEstimates ==
  {<<>>,
   <<"~", "4", "m", " ", "1", "2", "s">>,
   <<"a", "b", "o", "u", "t", " ", "5", " ", "m", "i", "n">>}

\* _update_incident: "mttr_estimate": mttr_display or _fmt_mttr(mttr_seconds)
update_incident_estimate ==
  /\ \E seconds \in 0 .. MaxSeconds, mttr_display \in AgentEstimates :
       fmt' = [seconds |-> seconds, display |-> mttr_display,
               estimate |-> IF mttr_display # <<>> THEN mttr_display
                            ELSE fmt_mttr(seconds)]
  /\ UNCHANGED <<now, loopVars, vres, queueVars, pipeVars, guardVars, trigVars>>

(* ------------------------- the verification loop ----------------------- *)
\* the range filter of _do_scan on executed_at: now-10m .. now-60s
SettleMin == 1
StaleMin == 10
\* "size": 10
ScanSize == 10

ScanHitsNoSettle ==
  {i \in DOMAIN actions :
     /\ actions[i].status = "executed"
     /\ actions[i].executed_at >= now - StaleMin}
ScanHits ==
  {i \in DOMAIN actions :
     /\ actions[i].status = "executed"
     /\ actions[i].executed_at >= now - StaleMin
     /\ actions[i].executed_at <= now - SettleMin}

\* sort executed_at asc
RECURSIVE SortByExecutedAt(_)
SortByExecutedAt(S) ==
  IF S = {} THEN <<>>
  ELSE LET m == CHOOSE i \in S : \A j \in S :
                  \/ actions[i].executed_at < actions[j].executed_at
                  \/ (actions[i].executed_at = actions[j].executed_at /\ i <= j)
       IN <<m>> \o SortByExecutedAt(S \ {m})

FirstN(q, n) == IF Len(q) <= n THEN q ELSE SubSeq(q, 1, n)

\* _guardian_loop: "while not stop_event.is_set()"
LoopTestAlways == TRUE
LoopTest == ~stop

\* _do_scan: the search
do_scan_search ==
  /\ spc = "idle"
  /\ LoopTest
  /\ scans < MaxScans
  /\ scans' = scans + 1
  /\ \/ LET hits == FirstN(SortByExecutedAt(ScanHits), ScanSize) IN
        /\ scand' = hits
        /\ spc' = IF hits = <<>> THEN "idle" ELSE "loop"
        /\ UNCHANGED faults
     \/ \* the search raises: "Guardian scan error"
        /\ StoreFault(1)
        /\ UNCHANGED <<scand, spc>>
  /\ UNCHANGED <<now, loopVars, fmt, vres, trigVars, pipeVars, checked, verifs, scanlog, audits,
                 actions, results, nextExec, triggers, rpc, rhit, rres, epc, ehit,
                 mutlog, attempts, executedBy, dockerOps, recoveryWrites>>

\* exec_id in _checked_exec_ids
AlreadyCheckedNever(x) == FALSE
AlreadyChecked(x) == x \in checked

\* _checked_exec_ids.add(exec_id), made before the agent is called: the set after a
\* turn whose agent call succeeded (agent_ok) or raised
CheckedAfterSuccessOnly(x, agent_ok) == IF agent_ok THEN checked \cup {x} ELSE checked
CheckedAfter(x, agent_ok) == checked \cup {x}

\* the "Audit trail" document of _run_guardian_agent
AuditDoc(svc, exec_id, verdict, mttr_seconds) ==
  [agent |-> "guardian", service |-> svc, exec_id |-> exec_id, decision |-> verdict,
   mttr_seconds |-> mttr_seconds]

NoOutput == [verdict |-> "", text |-> <<>>, affirmed |-> FALSE]

ScanEntry(a, kind, out, verdict, hit) ==
  [exec_id |-> actions[a].exec_id, kind |-> kind, status |-> actions[a].status,
   age |-> now - actions[a].executed_at, wellformed |-> WellFormed(out),
   affirmed |-> out.affirmed, verdict |-> verdict, hit |-> hit]

\* _do_scan: one turn of "for action in actions", _run_guardian_agent included
do_scan_verify ==
  LET a == scand[1]
      x == actions[a].exec_id
      svc == actions[a].service IN
  /\ spc = "loop"
  /\ scand' = Tail(scand)
  /\ spc' = IF Tail(scand) = <<>> THEN "idle" ELSE "loop"
  /\ IF AlreadyChecked(x)
     THEN /\ scanlog' = Append(scanlog, ScanEntry(a, "skip", NoOutput, "", 0))
          /\ UNCHANGED <<checked, incidents, audits, faults>>
     ELSE \/ \* the agent call raises or returns no output
             /\ checked' = CheckedAfter(x, FALSE)
             /\ scanlog' = Append(scanlog, ScanEntry(a, "agent_failed", NoOutput, "", 0))
             /\ UNCHANGED <<incidents, audits, faults>>
          \/ /\ checked' = CheckedAfter(x, TRUE)
             /\ \E out \in GuardianOutputs :
                  LET verdict == ParseVerdict(out)
                      hit == find_incident(svc)
                      mttr_seconds == IF hit = 0 THEN 0 ELSE (now - incidents[hit].ts) * 60
                      patched == IF hit = 0 THEN incidents
                                 ELSE update_incident(hit, verdict, mttr_seconds) IN
                  \/ /\ incidents' = patched
                     /\ audits' = Append(audits, AuditDoc(svc, x, verdict, mttr_seconds))
                     /\ scanlog' = Append(scanlog, ScanEntry(a, "verify", out, verdict, hit))
                     /\ UNCHANGED faults
                  \/ \* the lookup or the patch raises
                     /\ StoreFault(1)
                     /\ scanlog' = Append(scanlog, ScanEntry(a, "store_failed", out, verdict, 0))
                     /\ UNCHANGED <<incidents, audits>>
                  \/ \* es.index of the audit record raises after the patch
                     /\ StoreFault(1)
                     /\ incidents' = patched
                     /\ scanlog' = Append(scanlog, ScanEntry(a, "audit_failed", out, verdict, hit))
                     /\ UNCHANGED audits
  /\ UNCHANGED <<now, loopVars, fmt, vres, trigVars, lock, runs, ppc, pstart, pdet, psur, pout, pwrites, pgate,
                 verifs, scans,
                 actions, results, nextExec, triggers, rpc, rhit, rres, epc, ehit,
                 mutlog, attempts, executedBy, dockerOps, recoveryWrites>>

do_scan ==
  \/ do_scan_search
  \/ do_scan_verify

\* stop_guardian, called when the application shuts down
stop_guardian ==
  /\ ~stop
  /\ stop' = TRUE
  /\ lastcall' = "stop"
  /\ UNCHANGED <<now, running, fmt, vres, queueVars, pipeVars, guardVars, trigVars>>

\* _worker_thread.is_alive(): the thread lives until _guardian_loop returns
WorkerAlive == running

\* start_guardian: nothing while the worker thread is alive, else a new event and
\* a new thread, which sets running on entering _guardian_loop
start_guardian ==
  /\ IF WorkerAlive
     THEN UNCHANGED <<stop, running>>
     ELSE /\ stop' = FALSE
          /\ running' = TRUE
  /\ lastcall' = "start"
  /\ UNCHANGED <<now, fmt, vres, queueVars, pipeVars, guardVars, trigVars>>

\* _guardian_loop: the while test fails, the worker records that it stopped
guardian_loop_exit ==
  /\ spc = "idle"
  /\ running
  /\ ~LoopTest
  /\ running' = FALSE
  /\ UNCHANGED <<now, stop, lastcall, fmt, vres, queueVars, pipeVars, guardVars, trigVars>>

(* ---------------------------- specifications --------------------------- *)
\* the action queue and all of its consumers
NextQueue ==
  \/ trigger_kibana_workflow
  \/ \E r \in Runners : runner(r)
  \/ \E e \in Execs : mcp_runner_execute(e)

SpecQueue == Init /\ [][NextQueue]_vars

\* the pipeline with its gate, on-demand verification, and the clock
NextPipe ==
  \/ \E p \in Pipes : run_pipeline(p)
  \/ stream_guardian
  \/ Tick

SpecPipe == Init /\ [][NextPipe]_vars

\* one incident from detection to verification: a pipeline run, the runner that
\* executes what the run queued, the verification loop, and the clock
NextScan ==
  \/ (run_pipeline(1) /\ runs' <= 1)
  \/ runner(1)
  \/ do_scan
  \/ Tick

SpecScan == Init /\ [][NextScan]_vars

\* one incident from detection to verification under a clock that reaches beyond
\* the incident lookback: the runner may execute the action an hour after the run
NextPatch ==
  \/ (run_pipeline(1) /\ runs' <= 1)
  \/ runner(1)
  \/ do_scan
  \/ TickSlow

SpecPatch == Init /\ [][NextPatch]_vars

\* the verification loop at shutdown: one action is queued and executed, the loop
\* scans, the stop signal arrives at any moment.  A started scan finishes (the agent
\* call has a timeout) and the loop thread keeps being scheduled.
NextStop ==
  \/ (trigger_kibana_workflow /\ triggers' <= 1)
  \/ runner(1)
  \/ do_scan
  \/ Tick
  \/ stop_guardian
  \/ guardian_loop_exit

SpecStop ==
  /\ Init
  /\ [][NextStop]_vars
  /\ WF_vars(do_scan_verify)
  /\ WF_vars(guardian_loop_exit)

\* one runner working off a queue that fills over time
NextOrder ==
  \/ trigger_kibana_workflow
  \/ runner(1)
  \/ Tick

SpecOrder == Init /\ [][NextOrder]_vars

\* the threshold checks of a verification over a range of readings
NextVerdict == verify_resolution

SpecVerdict == Init /\ [][NextVerdict]_vars

\* the MTTR display of the verification patch over a range of durations
NextMttr == update_incident_estimate

SpecMttr == Init /\ [][NextMttr]_vars

\* a deployment with the Kibana workflow configured: decisions and two runners
NextTrigger ==
  \/ trigger_kibana_workflow_configured
  \/ \E r \in Runners : runner(r)

SpecTrigger == Init /\ [][NextTrigger]_vars

\* the runner loops kept running: while True in run() of each runner container
NextFinalize ==
  \/ trigger_kibana_workflow
  \/ \E r \in Runners : runner(r)

SpecFinalize ==
  Init /\ [][NextFinalize]_vars /\ \A r \in Runners : WF_vars(runner(r))

\* one incident from detection to verification with every loop kept running: the
\* runner container, the verification loop and the clock; the document store
\* answers every call of the pipeline and the runner
NextClose ==
  \/ (run_pipeline(1) /\ runs' <= 1 /\ faults' = faults)
  \/ (runner(1) /\ faults' = faults)
  \/ do_scan
  \/ Tick

SpecClose ==
  /\ Init
  /\ [][NextClose]_vars
  /\ WF_vars(runner(1))
  /\ WF_vars(do_scan)
  /\ WF_vars(Tick)

\* a burst of direct remediations within one minute, then the verification loop
\* and the clock kept running; the store answers every call and the agent
\* answers every verification with a well-formed RESOLVED
ResponsiveAgent ==
  /\ faults' = faults
  /\ \A k \in DOMAIN scanlog' :
       \/ scanlog'[k].kind = "skip"
       \/ scanlog'[k].kind = "verify" /\ scanlog'[k].wellformed
                                      /\ scanlog'[k].verdict = "RESOLVED"

NextStarve ==
  \/ (post_remediate /\ now = 0 /\ faults' = faults)
  \/ (do_scan /\ ResponsiveAgent)
  \/ Tick

SpecStarve ==
  /\ Init
  /\ [][NextStarve]_vars
  /\ WF_vars(do_scan_verify)
  /\ WF_vars(Tick)

\* two direct remediations, the verification loop with an agent that may fail on
\* any candidate, and the clock
NextRetry ==
  \/ (post_remediate /\ Len(actions') <= 2 /\ faults' = faults)
  \/ do_scan
  \/ Tick

SpecRetry == Init /\ [][NextRetry]_vars

\* two pipeline runs on one service, the runner, the verification loop and the
\* clock; the store answers every call and the agent every verification
NextOwner ==
  \/ (run_pipeline(1) /\ faults' = faults /\ pdet'[1] \subseteq {"payment-service"})
  \/ (runner(1) /\ faults' = faults)
  \/ (do_scan /\ ResponsiveAgent)
  \/ Tick

SpecOwner == Init /\ [][NextOwner]_vars

\* concurrent pipeline requests with every way a run can end
NextLock ==
  \E p \in Pipes :
    \/ run_pipeline(p)
    \/ pipeline_body_raises(p)
    \/ stream_closed(p)

SpecLock == Init /\ [][NextLock]_vars

\* pipeline runs whose detection may name no known service, and the clock
NextGate ==
  \/ \E p \in Pipes : run_pipeline(p)
  \/ \E p \in Pipes : pipeline_body_cassandra_unlisted(p)
  \/ Tick

SpecGate == Init /\ [][NextGate]_vars

\* the worker's life cycle: start and stop calls in any order while the loop scans
\* an executed action; the loop thread keeps being scheduled
NextWorker ==
  \/ (trigger_kibana_workflow /\ triggers' <= 1)
  \/ (runner(1) /\ faults' = faults)
  \/ (do_scan /\ ResponsiveAgent)
  \/ Tick
  \/ start_guardian
  \/ stop_guardian
  \/ guardian_loop_exit

SpecWorker ==
  /\ Init
  /\ [][NextWorker]_vars
  /\ WF_vars(do_scan_verify)
  /\ WF_vars(guardian_loop_exit)

(* ------------------------- properties of the queue --------------------- *)
Won(id)  == {a \in attempts[id] : a.won}
Lost(id) == {a \in attempts[id] : ~a.won}
\* every write to the document so far was made by a runner
OnlyRunnersWrote(id) == \A k \in DOMAIN mutlog[id] : mutlog[id][k].by \in Runners

\* C1: of the runners that polled one pending action and attempted the conditional
\* update, exactly one succeeded and all the others got a version conflict; no
\* interleaving of runners lets two conditional updates of one action succeed.
C1_ExactlyOnceClaim ==
  \A id \in DOMAIN actions :
    /\ Cardinality(Won(id)) <= 1
    /\ (attempts[id] # {} /\ OnlyRunnersWrote(id)) =>
         /\ Cardinality(Won(id)) = 1
         /\ Cardinality(Lost(id)) = Cardinality(attempts[id]) - 1

\* every runner has attempted the claim of one action: one won, the others lost
C1_Witness ==
  \E id \in DOMAIN actions :
    /\ {a.by : a \in attempts[id]} = Runners
    /\ Cardinality(Lost(id)) = NRunners - 1
    /\ OnlyRunnersWrote(id)

\* C2: the execute step of an action is performed at most once over its life, by
\* any consumer (runner loops and the on-demand execute endpoint).
C2_ExactlyOnceExecution ==
  \A id \in DOMAIN actions : Len(executedBy[id]) <= 1

StatusRank(s) ==
  CASE s = "pending" -> 0
    [] s = "executing" -> 1
    [] OTHER -> 2

\* C3: no write moves an action's status backwards along
\* pending -> executing -> {executed, failed}.
C3_StatusMonotonic ==
  [][\A id \in DOMAIN actions :
       StatusRank(actions'[id].status) >= StatusRank(actions[id].status)]_vars

\* C4: an action document is mutated at most twice (claim, finalize), and every
\* mutation is made by the one consumer that claimed it.
C4_SingleWriter ==
  \A id \in DOMAIN actions :
    /\ Len(mutlog[id]) <= 2
    /\ \A j, k \in DOMAIN mutlog[id] : mutlog[id][j].by = mutlog[id][k].by

\* a consumer still holds the document (it is between its claim and its result write)
InFlight(id) ==
  \/ \E r \in Runners : rhit[r].id = id
  \/ \E e \in Execs : ehit[e] = id

HasResult(x) == \E res \in BagToSet(results) : res.exec_id = x

\* C5: every action document with status executed or failed, once the consumer
\* that wrote it has finished, has a result record with the same exec_id.
C5_TerminalHasResult ==
  \A id \in DOMAIN actions :
    (actions[id].status \in {"executed", "failed"} /\ ~InFlight(id))
      => HasResult(actions[id].exec_id)

ResultsFor(x) == {res \in BagToSet(results) : res.exec_id = x}

\* C6: there is at most one result record per exec_id.
C6_OneResultPerExecId ==
  \A id \in DOMAIN actions :
    LET rs == ResultsFor(actions[id].exec_id) IN
    /\ Cardinality(rs) <= 1
    /\ \A res \in rs : CopiesIn(res, results) = 1

Active(i) ==
  \/ Upper(incidents[i].resolution_status) \in {"MONITORING", "REMEDIATING"}
  \/ /\ incidents[i].resolution_status = "RESOLVED"
     /\ now - incidents[i].ts < CooldownMin

ActiveIncidents(svc) ==
  {i \in DOMAIN incidents : incidents[i].service = svc /\ Active(i)}

\* C8: at every state each service has at most one active incident.
C8_OneActiveIncident ==
  \A svc \in KnownServices : Cardinality(ActiveIncidents(svc)) <= 1

Running == {p \in Pipes : ppc[p] # "idle"}

\* C9: at most one pipeline body runs at a time, and it holds the lock; a trigger
\* that did not get the lock emitted the "already running" event alone and made
\* no store write.
C9_PipelineSerialized ==
  /\ Cardinality(Running) <= 1
  /\ \A p \in Running : lock = p
  /\ \A p \in Pipes :
       (\E k \in DOMAIN pout[p] : pout[p][k] = "already_running")
         => /\ pout[p] = <<"already_running">>
            /\ pwrites[p] = 0
            /\ p \notin Running

\* a trigger was turned away while the other request was past the gate
C9_Witness ==
  \E p, q \in Pipes :
    /\ p # q
    /\ ppc[p] = "write"
    /\ pout[q] = <<"already_running">>

Terminal(status) == status \in {"RESOLVED", "ESCALATE"}

\* C10: once an incident's resolution_status is RESOLVED or ESCALATE, no step
\* changes it to another value.
C10_TerminalIsFinal ==
  [][\A i \in DOMAIN incidents :
       Terminal(incidents[i].resolution_status)
         => incidents'[i].resolution_status = incidents[i].resolution_status]_vars

(* ---------------------- properties of the verification loop ------------ *)
\* the turns of the scan in which the verification agent was invoked for exec_id x
AgentTurns(x) ==
  {k \in DOMAIN scanlog : scanlog[k].exec_id = x /\ scanlog[k].kind # "skip"}

\* C11: the scan invokes the verification agent at most once per exec_id; every
\* later turn that meets the exec_id again skips it and patches no incident.
C11_VerifiedOnce ==
  \A k \in DOMAIN scanlog :
    /\ Cardinality(AgentTurns(scanlog[k].exec_id)) <= 1
    /\ (\E j \in 1 .. k - 1 : scanlog[j].exec_id = scanlog[k].exec_id)
         => (scanlog[k].kind = "skip" /\ scanlog[k].hit = 0)

\* a later scan returned a verified exec_id again and skipped it
C11_Witness ==
  \E j, k \in DOMAIN scanlog :
    /\ j < k
    /\ scanlog[j].exec_id = scanlog[k].exec_id
    /\ scanlog[j].kind = "verify"
    /\ scanlog[j].hit # 0
    /\ scanlog[k].kind = "skip"

(* ------------------------ properties of a decision --------------------- *)
\* the decision has a document in the queue
Queued(d) == \E i \in DOMAIN actions : actions[i].incident_id = d

\* C12: no external operation of a decision (here the run of its Kibana workflow)
\* has happened while the decision has no document in the queue.
C12_PendingBeforeSideEffect ==
  \A d \in wfruns : Queued(d)

(* ------------------------ properties of the runner --------------------- *)
\* C13: an action of a kind the runner does not know is stored, and its execution
\* fails with no side effect: no control-plane call, no recovery metrics, and it
\* is never finalized as executed.
C13_UnknownKindNoSideEffect ==
  \A id \in DOMAIN actions :
    actions[id].action \notin KnownKinds
      => /\ dockerOps[id] = 0
         /\ recoveryWrites[id] = 0
         /\ actions[id].status # "executed"

\* the runner's primary operation (control plane) reported success
PrimaryOk(r) == rres[r].output = "docker"
\* the fallback was invoked
FallbackInvoked(r) == rres[r].output \in {"synthetic_fallback", "fallback failed"}
\* the synthetic recovery was carried out: recovery metrics exist for the action
FallbackOk(r) == FallbackInvoked(r) /\ recoveryWrites[rhit[r].id] > 0

\* C14: for an action a runner has finalized, the fallback was invoked iff the
\* primary operation failed; the status is executed iff the primary or the
\* fallback succeeded, and failed iff both failed.
C14_OutcomeWithFallback ==
  \A r \in Runners :
    rpc[r] = "result" =>
      LET status == actions[rhit[r].id].status IN
      /\ FallbackInvoked(r) <=> ~PrimaryOk(r)
      /\ status = "executed" <=> (PrimaryOk(r) \/ FallbackOk(r))
      /\ status = "failed" <=> (~PrimaryOk(r) /\ ~FallbackOk(r))

Finalized(id) == actions[id].status \in {"executed", "failed"}
\* the runners in the tail of a sequence of consumers
RunnersAfter(q, n) == {q[k] : k \in (n + 1) .. Len(q)} \cap Runners

\* C15: once an action is executed or failed, no runner cycle claims it or runs
\* its execute step again.
C15_FinalizedIsTerminal ==
  [][\A id \in DOMAIN actions :
       Finalized(id) => /\ Won(id)' = Won(id)
                        /\ RunnersAfter(executedBy'[id], Len(executedBy[id])) = {}]_vars

\* runner r's claim of action id has just been refused
Conflicted(r, id) ==
  /\ [by |-> r, won |-> FALSE] \in attempts'[id]
  /\ [by |-> r, won |-> FALSE] \notin attempts[id]

\* C16: the step in which a runner's claim meets a version conflict changes no
\* action document, writes no result, makes no control-plane call and no recovery
\* write, raises no error, and ends the runner's cycle; a runner whose claim of an
\* action was refused never runs that action's execute step or writes to it.
C16_ConflictAbandons ==
  /\ [][\A r \in Runners : \A id \in DOMAIN actions :
          Conflicted(r, id) =>
            /\ UNCHANGED <<actions, results, mutlog, executedBy, dockerOps,
                           recoveryWrites, faults>>
            /\ rpc'[r] = "idle"]_vars
  /\ [](\A id \in DOMAIN actions : \A a \in Lost(id) :
          /\ \A k \in DOMAIN executedBy[id] : executedBy[id][k] # a.by
          /\ \A k \in DOMAIN mutlog[id] : mutlog[id][k].by # a.by)

\* a runner lost the claim of an action that the winner has since finalized
C16_Witness ==
  \E id \in DOMAIN actions : \E a \in Lost(id) :
    /\ rpc[a.by] = "idle"
    /\ Finalized(id)
    /\ \E w \in Won(id) : w.by \in Runners

\* C17: the verification loop invokes the agent only for actions whose status is
\* executed and whose executed_at lies between 60 seconds and 10 minutes in the
\* past: none fresher, none staler, none pending, executing or failed.
C17_ScanWindow ==
  \A k \in DOMAIN scanlog :
    /\ scanlog[k].status = "executed"
    /\ scanlog[k].age >= 1
    /\ scanlog[k].age <= 10

\* an action was verified at the staleness bound, 10 minutes after its execution,
\* while a failed action was in the queue
C17_Witness ==
  /\ \E k \in DOMAIN scanlog : scanlog[k].kind = "verify" /\ scanlog[k].age = 10
  /\ \E i \in DOMAIN actions : actions[i].status = "failed"

\* C18: when the agent's output has no well-formed verdict field, the verdict is
\* RESOLVED only for a text that affirms the service is resolved; "unresolved" and
\* "not resolved" give ESCALATE.
C18_HeuristicEscalatesWhenAmbiguous ==
  \A k \in DOMAIN scanlog :
    (scanlog[k].kind \in {"verify", "store_failed"} /\ ~scanlog[k].wellformed
       /\ scanlog[k].verdict = "RESOLVED")
      => scanlog[k].affirmed

(* ------------------------- properties of incidents --------------------- *)
\* the step is the write at the end of a pipeline run: documents are appended
PipelineCreates ==
  /\ \E p \in Pipes : ppc[p] = "write" /\ ppc'[p] = "idle"
  /\ Len(incidents') > Len(incidents)
  /\ SubSeq(incidents', 1, Len(incidents)) = incidents

\* the step is a turn of the verification loop or an on-demand verification
VerificationStep ==
  \/ spc = "loop" /\ scand' = Tail(scand)
  \/ verifs' = verifs + 1

\* the step is a verification and every document it changes ends terminal and verified
VerificationPatches ==
  /\ VerificationStep
  /\ Len(incidents') = Len(incidents)
  /\ \A i \in DOMAIN incidents :
       incidents'[i] # incidents[i]
         => /\ Terminal(incidents'[i].resolution_status)
            /\ incidents'[i].guardian_verified

\* C19: the incidents change only when a pipeline run creates documents or a
\* verification patches one to a terminal status; no step of the gate or of a
\* runner changes them, and a resolution_status leaves MONITORING / REMEDIATING
\* only in a verification.
C19_IncidentWriters ==
  [][/\ incidents' # incidents => (PipelineCreates \/ VerificationPatches)
     /\ (\E p \in Pipes : ppc[p] = "gate") /\ (\E p \in Pipes : ppc'[p] # ppc[p])
          => incidents' = incidents
     /\ (\E r \in Runners : rpc'[r] # rpc[r]) => incidents' = incidents
     /\ \A i \in DOMAIN incidents :
          incidents'[i].resolution_status # incidents[i].resolution_status
            => VerificationStep]_vars

\* a runner has executed the action of an incident that verification has patched
C19_Witness ==
  /\ \E i \in DOMAIN incidents :
       incidents[i].guardian_verified /\ Terminal(incidents[i].resolution_status)
  /\ \E k \in DOMAIN scanlog : scanlog[k].kind = "verify" /\ scanlog[k].hit # 0
  /\ \E id \in DOMAIN actions : Won(id) # {} /\ Finalized(id)

\* the step is a turn of the verification loop in which the agent gave an output
\* and the incident lookup and patch did not raise
VerifiedTurn ==
  /\ Len(scanlog') = Len(scanlog) + 1
  /\ scanlog'[Len(scanlog')].kind \in {"verify", "audit_failed"}

C20_WitnessStale ==
  \E k \in DOMAIN scanlog : \E j \in DOMAIN incidents :
    /\ scanlog[k].kind = "verify"
    /\ scanlog[k].hit = 0
    /\ ~incidents[j].guardian_verified
    /\ \E a \in DOMAIN actions :
         actions[a].exec_id = scanlog[k].exec_id /\ actions[a].service = incidents[j].service

(* ------------------------ properties of the audit trail ---------------- *)
\* the audit records of the decision a turn of the scan reached
AuditsOf(e) ==
  {j \in DOMAIN audits :
     audits[j].exec_id = e.exec_id /\ audits[j].decision = e.verdict}

\* C21: every verification that parsed a verdict has appended one audit record of
\* it, also when no incident matched and when the incident lookup or patch raised
\* (a turn whose audit write itself raised is left out).
C21_AuditAlways ==
  \A k \in DOMAIN scanlog :
    scanlog[k].kind \in {"verify", "store_failed"}
      => Cardinality(AuditsOf(scanlog[k])) = 1

\* the write-back of a turn of the background scan for the action x of service svc
\* when the agent's verdict is `verdict` and no store call raises
ScanWriteBack(svc, x, verdict) ==
  LET hit == find_incident(svc)
      mttr_seconds == IF hit = 0 THEN 0 ELSE (now - incidents[hit].ts) * 60
  IN [incidents |-> IF hit = 0 THEN incidents
                    ELSE update_incident(hit, verdict, mttr_seconds),
      audits |-> Append(audits, AuditDoc(svc, x, verdict, mttr_seconds)),
      checked |-> checked \cup {x}]

\* C22: an on-demand verification that writes back makes the writes the background
\* scan makes for the same service, action and verdict: the same incident patch,
\* the same audit record, the same update of the already-checked set.
C22_OnDemandSameWriteBack ==
  [][(/\ verifs' = verifs + 1
      /\ faults' = faults
      /\ <<incidents, checked>>' # <<incidents, checked>>)
       => \E svc \in KnownServices : \E verdict \in {"RESOLVED", "ESCALATE"} :
            LET a == LatestAction(svc)
                w == ScanWriteBack(svc, IF a = 0 THEN 0 ELSE actions[a].exec_id, verdict)
            IN /\ incidents' = w.incidents
               /\ audits' = w.audits
               /\ checked' = w.checked
    ]_vars

(* ------------------------ properties of the two loops ------------------ *)
\* a store call of runner r's own cycle raises in this step
RunnerCycleRaises(r) ==
  /\ faults' > faults
  /\ rpc[r] \in {"finalize", "result"}
  /\ rpc'[r] # rpc[r]

\* a store call of the verification scan raises in this step
ScanRaises ==
  /\ faults' > faults
  /\ \/ scans' = scans + 1
     \/ spc = "loop" /\ scand' = Tail(scand)

\* C23: an exception in one runner cycle or one verification scan ends that cycle
\* only: the runner is back at its sleep and polls again when something is
\* pending, the scan goes on with its next hit or the loop with its next scan.
C23_LoopsSurvive ==
  /\ [][\A r \in Runners : RunnerCycleRaises(r) => rpc'[r] = "idle"]_vars
  /\ [][ScanRaises => /\ spc' \in {"idle", "loop"}
                      /\ spc = "loop" => scand' = Tail(scand)
                      /\ spc' = "loop" <=> scand' # <<>>]_vars
  /\ [](\A r \in Runners :
          /\ rpc[r] \in {"idle", "polled", "claimed", "fallback", "finalize", "result"}
          /\ (rpc[r] = "idle" /\ OldestPending # {}) => ENABLED poll(r))
  /\ []((spc = "idle" /\ ~stop /\ scans < MaxScans) => ENABLED do_scan_search)

\* the finalize update of a cycle raised: the action is left executing, the runner
\* is back at its sleep, and the verification loop has scanned
C23_Witness ==
  /\ faults = 1
  /\ rpc[1] = "idle"
  /\ \E id \in DOMAIN actions :
       /\ actions[id].status = "executing"
       /\ \E w \in Won(id) : w.by = 1
  /\ scans > 0

\* C24: once the stop signal is set no scan is started; a scan in progress goes on
\* to its end (the loop exits only between scans) and then the loop exits: the
\* worker's running flag becomes false and stays false.
C24_StopExitsLoop ==
  /\ [][stop => scans' = scans]_vars
  /\ [][running' # running => (stop /\ spc = "idle" /\ ~running')]_vars
  /\ []((stop /\ spc = "loop") => (running /\ ENABLED do_scan_verify))
  /\ (stop ~> ~running)

\* the stop signal is set while a scan is in progress, with a hit still to verify
C24_Witness ==
  /\ stop
  /\ running
  /\ spc = "loop"
  /\ scand # <<>>

(* ------------------------------ scenarios ------------------------------ *)
\* the primary operation restarted the container: the runner recorded an executed
\* result with docker_used
PrimaryRecovered(id) ==
  \E res \in BagToSet(results) :
    res.exec_id = actions[id].exec_id /\ res.status = "executed" /\ res.docker_used
\* the fallback wrote recovery metrics for the action
FallbackRecovered(id) == recoveryWrites[id] > 0

\* C25: a restart_service action of a known service that a runner claimed and whose
\* recovery the primary operation or the fallback performed has, once the runner
\* has finalized it and ended its cycle, the status executed and a result record
\* with its exec_id and the outcome success.
C25_RestartScenario ==
  \A id \in DOMAIN actions :
    (/\ actions[id].action = "restart_service"
     /\ actions[id].service \in KnownServices
     /\ \E w \in Won(id) : w.by \in Runners
     /\ ~InFlight(id)
     /\ Finalized(id)
     /\ PrimaryRecovered(id) \/ FallbackRecovered(id))
      => /\ actions[id].status = "executed"
         /\ \E res \in BagToSet(results) :
              res.exec_id = actions[id].exec_id /\ res.outcome = "success"

\* request p leaves the gate in this step with every detected service blocked
AllBlockedAtGate(p) ==
  /\ ppc[p] = "gate"
  /\ ppc'[p] # "gate"
  /\ faults' = faults
  /\ \A svc \in pdet[p] : GateBlocks(svc)

\* C26: a run whose detected services are all blocked by the gate ends there: the
\* step writes no incident, action or result document, releases the lock, and the
\* only event of the outcome is the skip notice (a pipeline_complete, not an error).
C26_GateBlockNoOp ==
  /\ [][\A p \in Pipes :
          AllBlockedAtGate(p) => /\ incidents' = incidents
                                 /\ actions' = actions
                                 /\ results' = results
                                 /\ audits' = audits
                                 /\ ppc'[p] = "idle"
                                 /\ lock' = 0
                                 /\ pout'[p] = <<"skipped">>]_vars
  /\ [](\A p \in Pipes :
          (pout[p] # <<>> /\ pout[p][Len(pout[p])] = "skipped")
            => pwrites[p] = 0 /\ ppc[p] = "idle")

\* a run was skipped at the gate because the service's latest incident blocked it
C26_Witness ==
  \E p \in Pipes :
    /\ pout[p] = <<"skipped">>
    /\ pgate[p] # {}
    /\ \A g \in pgate[p] : g.blocked /\ g.seen
    /\ incidents # <<>>

(* --------------------------- order of claims --------------------------- *)
\* no pending action was created before action id
OldestOfPending(id) ==
  \A j \in DOMAIN actions :
    actions[j].status = "pending" => actions[id].ts <= actions[j].ts

DerivedForm(s) ==
  IF s < 60 THEN <<"~">> \o Dec(s) \o <<"s">>
  ELSE IF s % 60 > 0 THEN <<"~">> \o Dec(s \div 60) \o <<"m", " ">> \o Dec(s % 60) \o <<"s">>
  ELSE <<"~">> \o Dec(s \div 60) \o <<"m">>

\* _fmt_mttr gives the claimed form, "~4m 12s" for 252 seconds included
FmtMttrAsClaimed ==
  /\ fmt_mttr(fmt.seconds) = DerivedForm(fmt.seconds)
  /\ fmt_mttr(252) = <<"~", "4", "m", " ", "1", "2", "s">>

\* C28: the mttr_estimate stored with the patch is the display form derived from
\* the MTTR in seconds: "~{s}s" below a minute, "~{m}m {r}s" with a remainder,
\* "~{m}m" without.
C28_MttrEstimateDerived ==
  fmt # NoFmt => fmt.estimate = DerivedForm(fmt.seconds)

(* ------------------------- verification thresholds --------------------- *)
\* C29: the verdict is RESOLVED exactly when memory is below 65%, the error rate
\* below 2.5 per minute and latency below 250 ms, and ESCALATE otherwise.
C29_VerdictFromThresholds ==
  vres # NoSamples =>
    LET pass == /\ vres.memory_percent < 65
                /\ vres.error_rate_x10 < 25
                /\ vres.latency_ms < 250
    IN /\ vres.verdict = "RESOLVED" <=> pass
       /\ vres.verdict = "ESCALATE" <=> ~pass

\* the two scenarios of the claim: {58%, 0.8/min, 210 ms} is RESOLVED, 72% is ESCALATE
ScenariosAsClaimed ==
  /\ VerdictOf(Healthy(58, 8, 210)) = "RESOLVED"
  /\ \A e \in ErrorRateSamples, l \in LatencySamples :
       VerdictOf(Healthy(72, e, l)) = "ESCALATE"

(* --------------------------- liveness of finalize ---------------------- *)
\* C30: with the runner loops running, every action whose claim succeeded (status
\* executing) eventually reaches executed or failed, also when the finalize update
\* or the result write raises during the cycle.
C30_FinalizeLiveness ==
  \A id \in 1 .. MaxTriggers :
    (id \in DOMAIN actions /\ actions[id].status = "executing")
      ~> (id \in DOMAIN actions /\ actions[id].status \in {"executed", "failed"})

\* a failed result write leaves the action in its final status
ResultWriteFaultIsFinal ==
  [][\A r \in Runners :
       (lock_and_process_result(r) /\ faults' # faults) =>
         actions[rhit[r].id].status \in {"executed", "failed"}]_vars

(* ------------------------ liveness of incident closure ----------------- *)
\* the action queued by the run that wrote incident i
ActionsOfIncident(i) ==
  {a \in DOMAIN actions : actions[a].incident_id = incidents[i].run}

\* C31: with the runner and the verification loop running, every pipeline-written
\* incident with resolution_status REMEDIATING eventually reaches RESOLVED or
\* ESCALATE; stated here for the incidents whose action ended in status failed,
\* which the claim includes.
C31_IncidentClosure ==
  \A i \in 1 .. Cardinality(KnownServices) :
    (/\ i \in DOMAIN incidents
     /\ incidents[i].resolution_status = "REMEDIATING"
     /\ \E a \in ActionsOfIncident(i) : actions[a].status = "failed")
      ~> (/\ i \in DOMAIN incidents
          /\ incidents[i].resolution_status \in {"RESOLVED", "ESCALATE"})

\* the scan never takes up an action that is not executed
ScanTakesExecutedOnly ==
  \A k \in DOMAIN scanlog : scanlog[k].status = "executed"

(* ------------------------- liveness of verification -------------------- *)
\* C32: every executed action is submitted to verification by some scan while it is
\* inside the scan window, however many other executed actions are in the window;
\* stated at the moments a scan is in progress with the action in the window: the
\* action's exec_id ends up submitted (checked).
C32_VerificationLiveness ==
  \A a \in 1 .. MaxBurst :
    (a \in DOMAIN actions /\ a \in ScanHits /\ spc = "loop")
      ~> (a \in DOMAIN actions /\ actions[a].exec_id \in checked)

\* the same for the actions with fewer than ScanSize older ones around them
PageCoversEarly ==
  \A a \in 1 .. ScanSize :
    (a \in DOMAIN actions /\ a \in ScanHits /\ spc = "loop")
      ~> (a \in DOMAIN actions /\ actions[a].exec_id \in checked)

(* ----------------------- failures inside one scan ---------------------- *)
\* the turns of the scan in which exec_id x was handed to the verification agent
Submissions(x) == {k \in DOMAIN scanlog : scanlog[k].exec_id = x /\ scanlog[k].kind # "skip"}
\* the turn just taken, when the step is a turn of the scan's loop
ScanTurn == scanlog' # scanlog
TurnTaken == scanlog'[Len(scanlog')]

\* C33: the scan marks an exec_id as checked before the agent is called, whatever
\* the call does; a failed call ends one candidate's turn only, the remaining
\* candidates of the scan are still processed; no exec_id is submitted by the
\* background scan more than once.
C33_MarkedBeforeAgent ==
  /\ [][(ScanTurn /\ TurnTaken.kind # "skip") =>
          /\ TurnTaken.exec_id \notin checked
          /\ TurnTaken.exec_id \in checked']_vars
  /\ [][ScanTurn =>
          /\ scand' = Tail(scand)
          /\ spc' = IF scand' = <<>> THEN "idle" ELSE "loop"]_vars
  /\ [](spc = "loop" => (scand # <<>> /\ ENABLED do_scan_verify))
  /\ [](\A k \in DOMAIN scanlog : Cardinality(Submissions(scanlog[k].exec_id)) <= 1)

ExecutedAtOf(x) == {actions[a].executed_at : a \in {b \in DOMAIN actions : actions[b].exec_id = x}}

\* the agent call failed for one candidate, the next candidate of the same scan was
\* verified, and a later scan skipped the failed one
C33_Witness ==
  \E k1, k3 \in DOMAIN scanlog :
    /\ k1 + 1 < k3
    /\ scanlog[k1].kind = "agent_failed"
    /\ scanlog[k1 + 1].kind = "verify"
    /\ scanlog[k1 + 1].exec_id # scanlog[k1].exec_id
    /\ scanlog[k1 + 1].age = scanlog[k1].age
    /\ ExecutedAtOf(scanlog[k1 + 1].exec_id) = ExecutedAtOf(scanlog[k1].exec_id)
    /\ scanlog[k3].kind = "skip"
    /\ scanlog[k3].exec_id = scanlog[k1].exec_id

(* -------------------- which incident a verdict patches ----------------- *)
\* C34: a verdict produced for an action patches only the incident the action was
\* created for: the incident written by the pipeline run that queued the action,
\* never another incident of the same service.
C34_PatchesOwnIncident ==
  [][(ScanTurn /\ TurnTaken.kind = "verify" /\ TurnTaken.hit # 0) =>
       incidents[TurnTaken.hit].run = actions[scand[1]].incident_id]_vars

(* ------------------ what a patch presupposes of the queue -------------- *)
\* C35: an incident is patched to a terminal state only after some action for its
\* service has reached status executed: never while the service's latest action is
\* pending, executing or failed, nor when the service has no action at all.
C35_PatchAfterExecuted ==
  [][\A i \in DOMAIN incidents :
       incidents'[i] # incidents[i] =>
         /\ LatestAction(incidents[i].service) # 0
         /\ actions[LatestAction(incidents[i].service)].status = "executed"]_vars

(* --------------------- one document per remediation -------------------- *)
\* C36: action documents are created only by the workflow-trigger write, one per
\* call, with status pending and an exec_id no other document has; executing an
\* action, by the primary operation or the fallback, creates no further document.
C36_OneDocumentPerDecision ==
  [][Len(actions') # Len(actions) =>
       /\ triggers' = triggers + 1
       /\ Len(actions') = Len(actions) + 1
       /\ actions'[Len(actions')].status = "pending"
       /\ \A a \in DOMAIN actions : actions[a].exec_id # actions'[Len(actions')].exec_id]_vars

(* --------------------------- the pipeline lock ------------------------- *)
\* C37: the pipeline lock is released on every exit of a run that acquired it
\* (completion, early stop, an exception in the body, the consumer closing the
\* stream); the lock is held only while a run is in progress, "already running" is
\* answered only then, and with no run in progress a trigger acquires the lock.
C37_LockReleased ==
  /\ [][\A p \in Pipes : (ppc[p] # "idle" /\ ppc'[p] = "idle") => lock' = 0]_vars
  /\ [](lock = 0 <=> \A p \in Pipes : ppc[p] = "idle")
  /\ [][\A p \in Pipes :
          (pout'[p] # pout[p] /\ pout'[p] = <<"already_running">>) =>
            \E q \in Pipes : ppc[q] # "idle"]_vars
  /\ []((runs < MaxRuns /\ \A q \in Pipes : ppc[q] = "idle") =>
          \A p \in Pipes : ENABLED (pipeline_generator(p) /\ lock' = p))

\* a run ended by an exception or a closed stream, and a later trigger holds the lock
C37_Witness ==
  \E p, q \in Pipes :
    /\ p # q
    /\ pout[p] # <<>>
    /\ pout[p][Len(pout[p])] = "aborted"
    /\ ppc[p] = "idle"
    /\ lock = q
    /\ ppc[q] = "cassandra"

(* --------------------------- the gate fails open ----------------------- *)
\* the gate step of request p
GateStep(p) == ppc[p] = "gate" /\ ppc'[p] # "gate"

\* C38: when the incident lookup of the gate raises, the whole check is skipped and
\* the run proceeds as if every detected service were allowed; when the detection
\* names no known service, no check is made and the run proceeds.
C38_GateFailsOpen ==
  /\ [][\A p \in Pipes :
          (GateStep(p) /\ faults' # faults) =>
            /\ ppc'[p] = "agents"
            /\ pdet'[p] = pdet[p]
            /\ pgate'[p] = {}
            /\ pout'[p] = pout[p]
            /\ lock' = p]_vars
  /\ [][\A p \in Pipes :
          (GateStep(p) /\ pdet[p] = {}) =>
            /\ ppc'[p] = "agents"
            /\ faults' = faults
            /\ pgate'[p] = {}
            /\ pout'[p] = pout[p]
            /\ lock' = p]_vars
  /\ [](\A p \in Pipes : ppc[p] = "agents" => ENABLED pipeline_body_surgeon(p))

\* the lookup raised for a run whose detected services were all in flight, and the
\* run went on to queue a remediation
C38_Witness ==
  \E p \in Pipes :
    /\ ppc[p] = "write"
    /\ faults = 1
    /\ pgate[p] = {}
    /\ pdet[p] # {}
    /\ \A svc \in pdet[p] : GateBlocks(svc)
    /\ pwrites[p] = 1

\* a run whose detection named no known service reached the incident write
UnlistedProceeds ==
  \E p \in Pipes : ppc[p] = "write" /\ pdet[p] = {} /\ faults = 0

(* ------------------------- the worker's life cycle --------------------- *)
\* C39: start_guardian called while a worker is alive starts nothing (at most one
\* worker exists), and after any sequence of start_guardian and stop_guardian calls
\* whose last call is start_guardian a worker is eventually running, also when the
\* start follows a stop before the previous worker has exited.
C39_StartedWorkerRuns ==
  (lastcall = "start") ~> running

\* a start call made while the worker is alive changes neither the event nor the worker
StartWhileAliveStartsNothing ==
  [][(lastcall = "stop" /\ lastcall' = "start" /\ running) =>
       (running' = running /\ stop' = stop)]_vars

=============================================================================
